---- MODULE Spec2Model ----
(***************************************************************************)
(* Model of the hono-poc backend: the showcase middleware (request          *)
(* annotator), the showcase handlers, the error demo route and the          *)
(* centralized error handler app.onError.                                   *)
(*                                                                          *)
(* A request is a small process: it arrives, runs the middleware pre-phase  *)
(* (only under the /api/showcase prefix), the route handler, app.onError     *)
(* when the handler threw, and the middleware post-phase.                   *)
(* Requests interleave at every await, i.e. between these steps.            *)
(*                                                                          *)
(* JavaScript values are tagged records: [t |-> "undefined"],               *)
(* [t |-> "null"], [t |-> "number", v |-> n], [t |-> "string", v |-> s]     *)
(* with s a sequence of one-character strings, [t |-> "array"] and          *)
(* [t |-> "object", f |-> fields].  Ages are integers; message texts are    *)
(* written in ASCII.                                                        *)
(***************************************************************************)
EXTENDS Integers, Sequences, FiniteSets, TLC

\* ------------------------------------------------------------------ bounds
NumReq     == 2    \* request slots that may be in flight together
MaxClock   == 2    \* last value of the millisecond clock the pipeline sees
NumStreams == 2    \* streaming responses that may be open together
MaxPairs   == 2    \* key=value pairs in a query string
MaxChunk   == 8    \* bytes one reader.read() of the client may deliver
MaxCalls   == 3    \* requests and streams the page starts
MaxFlight  == 2    \* fireRequest calls awaiting their answer together
MaxUnits   == 1    \* lines or events one read loop of the page shows
MaxLoops   == 2    \* read loops of one kind the page could hold at once
LogCalls   == 22   \* requests fired one after the other to fill the log
MaxFailures == 1   \* failed requests among those a full log holds

Req == 1..NumReq
Streams == 1..NumStreams

VARIABLES
  requestCounter,  \* middleware/showcase.js: let requestCounter
  clock,           \* the value Date.now() returns
  pc,              \* per request: position in the pipeline
  req,             \* per request: the incoming request
  store,           \* per request: values put on the context with c.set()
  local,           \* per request: the middleware's consts requestId, startedAt
  hdr,             \* per request: response headers set with c.header()
  res,             \* per request: the response (status and JSON body)
  raised,          \* per request: the error thrown by the handler, if any
  answered,        \* per request: the onError branches that returned a response
  trace,           \* per request: the pipeline phases run so far, in order
  postSaw,         \* per request: the start time the post-phase subtracted
  skind,           \* per stream: "stream" (plain text) or "sse", "none" before
  spc,             \* per stream: position of the callback given to stream()
  idx,             \* per stream: the loop's position (lines or events begun)
  sent,            \* per stream: what reached the response, with the time
  aborted,         \* per stream: the client has closed the connection
  wake,            \* per stream: the time its callback has reached: that of
                   \* its last step, or when its pending timer is due
  attempts,        \* per stream: calls of s.write / s.writeSSE so far
  t0,              \* per stream: new Date() taken when the lines were built
  cmode,           \* client: which function reads stream 1, "none" before
  cpc,             \* client: position in startStream / startSSE
  got,             \* client: bytes of the response body read so far
  buf,             \* client: let buf / let buffer, the undelivered tail
  shown,           \* client: streamOutput.value / sseEvents.value
  issued,          \* page: fetches started so far (numbers the calls)
  flying,          \* page: the fireRequest calls awaiting api.request()
  loading,         \* page: loading.value
  response,        \* page: response.value
  responseStatus,  \* page: responseStatus.value
  responseHeaders, \* page: responseHeaders.value
  lastAction,      \* page: lastAction.value
  methodChainMethod, \* page: methodChainMethod.value
  activeFeature,   \* page: activeFeature.value
  requestLog,      \* page: requestLog.value (HonoShowcaseView.vue)
  running,         \* page: isStreaming.value / isSseRunning.value, per kind
  loops,           \* page: read loops between their start and their end
  output,          \* page: streamOutput.value / sseEvents.value, per kind
  untouched        \* page: no demo was run since the last switchFeature

\* the streaming responses
streamVars == <<skind, spc, idx, sent, aborted, wake, attempts, t0>>

\* everything outside the request pipeline
\* the demo client reading a streaming response
clientVars == <<cmode, cpc, got, buf, shown>>

\* the showcase page
pageVars == <<issued, flying, loading, response, responseStatus,
              responseHeaders, lastAction, methodChainMethod, activeFeature,
              requestLog, running, loops, output, untouched>>

outsidePipeline == <<streamVars, clientVars, pageVars>>

vars == <<requestCounter, clock, pc, req, store, local, hdr, res, raised,
          answered, trace, postSaw, streamVars, clientVars, pageVars>>

\* ------------------------------------------------------- JavaScript values
Undef  == [t |-> "undefined"]
Null   == [t |-> "null"]
Arr    == [t |-> "array"]
Num(n) == [t |-> "number", v |-> n]
Str(s) == [t |-> "string", v |-> s]
Obj(f) == [t |-> "object", f |-> f]

\* typeof x
TypeOf(x) == IF x.t \in {"null", "array"} THEN "object" ELSE x.t

\* the truthiness !x negates
Truthy(x) ==
  CASE x.t = "undefined" -> FALSE
    [] x.t = "null"      -> FALSE
    [] x.t = "number"    -> x.v # 0
    [] x.t = "string"    -> Len(x.v) > 0
    [] OTHER             -> TRUE

\* x.k for a value x that is neither null nor undefined
Get(x, k) ==
  IF x.t = "object" /\ k \in DOMAIN x.f THEN x.f[k] ELSE Undef

None == [t |-> "none"]

\* ------------------------------------------------------------ input values
\* strings submitted as name
NameStrings == { <<>>, <<"J">>, <<"J", "o">>, <<"J", "a", "n", "e">> }

\* strings submitted as email
EmailStrings ==
  { <<>>,
    <<"j", "a", "n", "e">>,
    <<"a", "@", "b">>,
    <<"a", "@", "b", ".", "c">>,
    <<"a", " ", "@", "b", ".", "c">>,
    <<"@", "b", ".", "c">>,
    <<"a", "@", "b", ".">>,
    <<"a", "@", "@", "b", ".", "c">>,
    <<"a", "@", "b", ".", "c", ".", "d">> }

\* numbers submitted as age
AgeNumbers == { -1, 0, 28, 150, 151 }

NameValues  == {Null, Num(0), Num(42)} \cup { Str(s) : s \in NameStrings }
EmailValues == {Null, Num(7)} \cup { Str(s) : s \in EmailStrings }
AgeValues   == {Null, Str(<<"2", "8">>), Arr} \cup { Num(n) : n \in AgeNumbers }
ExtraValues == { Str(<<"x">>) }

\* the values one key of a submitted object may take: absent, or one of vals
Field(k, vals) == { <<>> } \cup { <<<<k, v>>>> : v \in vals }

\* the object with the given (key, value) pairs
Record(pairs) ==
  Obj([k \in { pairs[i][1] : i \in DOMAIN pairs } |->
         (CHOOSE p \in { pairs[i] : i \in DOMAIN pairs } : p[1] = k)[2]])

\* every submitted object over the keys name, email, age and one extra key
Records ==
  { Record(n \o e \o a \o x) :
      n \in Field("name", NameValues), e \in Field("email", EmailValues),
      a \in Field("age", AgeValues),   x \in Field("extra", ExtraValues) }

\* JSON documents that are not objects
NonRecords == { Null, Num(5), Str(<<"x">>), Arr }

\* a request body: text that is not JSON, or the text of a JSON value
Malformed == [wellFormed |-> FALSE]
Json(v)   == [wellFormed |-> TRUE, value |-> v]
NoBody    == Malformed

\* a query parameter: absent, or present with a (possibly empty) value
NoParam  == [has |-> FALSE]
Param(v) == [has |-> TRUE, v |-> v]
TypeParams == {NoParam} \cup { Param(v) : v \in {"", "http", "notfound", "server", "other"} }

\* --------------------------------------------------------------- validator
\* /^[^\s@]+@[^\s@]+\.[^\s@]+$/.test(s)
Plain(s, lo, hi) ==
  /\ lo <= hi
  /\ \A k \in lo..hi : s[k] \notin {" ", "@"}

EmailRegexTest(s) ==
  \E i \in 1..Len(s) : \E j \in 1..Len(s) :
    /\ i < j
    /\ s[i] = "@"
    /\ s[j] = "."
    /\ Plain(s, 1, i - 1)
    /\ Plain(s, i + 1, j - 1)
    /\ Plain(s, j + 1, Len(s))

Err(field, message) == [field |-> field, message |-> message]

\* handlers/showcase.js, the name check
NameErrors(body) ==
  LET name == Get(body, "name") IN
  IF ~Truthy(name) \/ TypeOf(name) # "string"
    THEN << Err("name", "required - must be a string") >>
  ELSE IF Len(name.v) < 2
    THEN << Err("name", "must be at least 2 characters") >>
  ELSE << >>

\* handlers/showcase.js, the email check
EmailErrors(body) ==
  LET email == Get(body, "email") IN
  IF ~Truthy(email) \/ TypeOf(email) # "string"
    THEN << Err("email", "required - must be a string") >>
  ELSE IF ~EmailRegexTest(email.v)
    THEN << Err("email", "must be a valid email address") >>
  ELSE << >>

\* the age check with the upper bound taken as exclusive
AgeErrors_ExclusiveUpper(body) ==
  LET age == Get(body, "age") IN
  IF age # Undef
    THEN IF TypeOf(age) # "number" \/ age.v < 0 \/ age.v >= 150
           THEN << Err("age", "must be a number between 0 and 150") >>
           ELSE << >>
    ELSE << >>

\* handlers/showcase.js, the age check
AgeErrors(body) ==
  LET age == Get(body, "age") IN
  IF age # Undef
    THEN IF TypeOf(age) # "number" \/ age.v < 0 \/ age.v > 150
           THEN << Err("age", "must be a number between 0 and 150") >>
           ELSE << >>
    ELSE << >>

\* the three checks chained with else: the first failure ends the checking
FieldErrors_ShortCircuit(body) ==
  IF NameErrors(body) # << >> THEN NameErrors(body)
  ELSE IF EmailErrors(body) # << >> THEN EmailErrors(body)
  ELSE AgeErrors(body)

\* the errors array after the three checks, in the order they push
FieldErrors(body) == NameErrors(body) \o EmailErrors(body) \o AgeErrors(body)

\* ------------------------------------------------------ errors and results
HTTPException(status, message) ==
  [class |-> "HTTPException", status |-> status, message |-> message]
Error(message)     == [class |-> "Error", message |-> message]
TypeError(message) == [class |-> "TypeError", message |-> message]

\* err instanceof HTTPException
IsHTTPException(err) == err.class = "HTTPException"

\* what running a handler gives: a response, or a thrown error
Return(status, body) == [threw |-> FALSE, status |-> status, body |-> body]
Throw(err)           == [threw |-> TRUE, err |-> err]

\* a parse failure swallowed: the handler goes on with its initial body {}
ReqJson_EmptyOnFailure(raw) ==
  IF raw.wellFormed THEN [ok |-> TRUE, value |-> raw.value]
                    ELSE [ok |-> TRUE, value |-> Obj(<< >>)]

\* await c.req.json(): the parsed value, or a rejection
ReqJson(raw) ==
  IF raw.wellFormed THEN [ok |-> TRUE, value |-> raw.value] ELSE [ok |-> FALSE]

\* the test taken as errors.length > 1
HasErrors_MoreThanOne(errors) == Len(errors) > 1

\* errors.length > 0
HasErrors(errors) == Len(errors) > 0

\* data rebuilt from the three known fields only
SuccessData_Picked(body) ==
  Obj([k \in DOMAIN body.f \cap {"name", "email", "age"} |-> body.f[k]])

\* data: body
SuccessData(body) == body

\* handlers/showcase.js validationDemo
validationDemo(raw) ==
  LET parsed == ReqJson(raw) IN
  IF ~parsed.ok
    THEN Return(400, [feature |-> "validation", valid |-> FALSE,
                      errors |-> << Err("body", "Invalid or missing JSON body") >>,
                      tip |-> "Send Content-Type: application/json with a JSON body"])
  ELSE LET body == parsed.value IN
    IF body.t = "null"
      THEN Throw(TypeError("Cannot read properties of null (reading 'name')"))
    ELSE LET errors == FieldErrors(body) IN
      IF HasErrors(errors)
        THEN Return(400, [feature |-> "validation", valid |-> FALSE,
                          errors |-> errors, received |-> body,
                          tip |-> "In production: use @hono/zod-validator middleware"])
        ELSE Return(200, [feature |-> "validation", valid |-> TRUE,
                          data |-> SuccessData(body),
                          message |-> "All fields passed validation!"])

\* c.req.query('type') || 'http'
QueryOr(q, dflt) == IF q.has /\ q.v # "" THEN q.v ELSE dflt

\* the error demo answering its server fault itself
errorDemo_OwnAnswer(q) ==
  LET type == QueryOr(q, "http") IN
  IF type = "http"
    THEN Throw(HTTPException(422, "Unprocessable Entity - intentional HTTPException demo"))
  ELSE IF type = "notfound"
    THEN Throw(HTTPException(404, "Resource not found - intentional 404"))
  ELSE IF type = "server"
    THEN Return(500, [error |-> [code |-> "INTERNAL_ERROR", message |-> "Internal Server Error"]])
  ELSE Return(200, [tip |-> "Add ?type=http, ?type=notfound or ?type=server to trigger errors",
                    available |-> <<"http", "notfound", "server">>])

\* the error demo without its notfound branch
errorDemo_NoNotFound(q) ==
  LET type == QueryOr(q, "http") IN
  IF type = "http"
    THEN Throw(HTTPException(422, "Unprocessable Entity - intentional HTTPException demo"))
  ELSE IF type = "server"
    THEN Throw(Error("Unhandled server error - caught by app.onError()"))
  ELSE Return(200, [tip |-> "Add ?type=http, ?type=notfound or ?type=server to trigger errors",
                    available |-> <<"http", "notfound", "server">>])

\* app.js GET /api/showcase/error
errorDemo(q) ==
  LET type == QueryOr(q, "http") IN
  IF type = "http"
    THEN Throw(HTTPException(422, "Unprocessable Entity - intentional HTTPException demo"))
  ELSE IF type = "notfound"
    THEN Throw(HTTPException(404, "Resource not found - intentional 404"))
  ELSE IF type = "server"
    THEN Throw(Error("Unhandled server error - caught by app.onError()"))
  ELSE Return(200, [tip |-> "Add ?type=http, ?type=notfound or ?type=server to trigger errors",
                    available |-> <<"http", "notfound", "server">>])

\* handlers/showcase.js validationDemo, lines 80-88: the handler's catch
\* clause takes the rejection of c.req.json()
CaughtByHandler(q) == q.route = "validation" /\ ~ReqJson(q.body).ok

\* onError answering known faults only and throwing the others again
onError_Rethrow(err) ==
  IF IsHTTPException(err)
    THEN [path |-> "known", status |-> err.status,
          body |-> [feature |-> "error-handling",
                    error |-> [code |-> "HTTP_EXCEPTION", status |-> err.status,
                               message |-> err.message],
                    tip |-> "HTTPException is caught by app.onError"]]
    ELSE [path |-> "rethrown", status |-> 0, body |-> [crashed |-> TRUE]]

\* onError answering every fault, known ones too, with status 500
onError_Always500(err) ==
  IF IsHTTPException(err)
    THEN [path |-> "known", status |-> 500,
          body |-> [feature |-> "error-handling",
                    error |-> [code |-> "HTTP_EXCEPTION", status |-> 500,
                               message |-> err.message],
                    tip |-> "HTTPException is caught by app.onError"]]
    ELSE [path |-> "unknown", status |-> 500,
          body |-> [feature |-> "error-handling",
                    error |-> [code |-> "INTERNAL_ERROR", message |-> err.message],
                    tip |-> "app.onError() is the last line of defence"]]

\* app.js app.onError: the branch taken, and the response it returns
onError(err) ==
  IF IsHTTPException(err)
    THEN [path |-> "known", status |-> err.status,
          body |-> [feature |-> "error-handling",
                    error |-> [code |-> "HTTP_EXCEPTION", status |-> err.status,
                               message |-> err.message],
                    tip |-> "HTTPException is caught by app.onError"]]
    ELSE [path |-> "unknown", status |-> 500,
          body |-> [feature |-> "error-handling",
                    error |-> [code |-> "INTERNAL_ERROR", message |-> err.message],
                    tip |-> "app.onError() is the last line of defence"]]

\* handlers/showcase.js routingQuery: forEach((v, k) => { all[k] = v; })
routingQuery(search) ==
  LET keys == { search[i][1] : i \in DOMAIN search }
      last(k) == CHOOSE i \in DOMAIN search :
                   /\ search[i][1] = k
                   /\ \A j \in DOMAIN search : search[j][1] = k => j <= i
      all == [k \in keys |-> search[last(k)][2]]
  IN Return(200, [feature |-> "routing.query", query |-> all,
                  tip |-> "c.req.query(key) for single param, iterate URLSearchParams for all"])

\* handlers/health.js health
health(now) ==
  Return(200, [status |-> "healthy", service |-> "wipo-poc-backend",
               timestamp |-> now, devMode |-> FALSE])

\* handlers/showcase.js middlewareDemo, from what c.get() gives and Date.now()
middlewareDemo(bag, now) ==
  LET requestId == bag.requestId
      startedAt == bag.startedAt
      elapsed   == IF Truthy(startedAt)
                     THEN [known |-> TRUE, ms |-> now - startedAt.v]
                     ELSE [known |-> FALSE, ms |-> 0]
  IN Return(200, [feature |-> "middleware",
                  context_from_middleware |->
                    [requestId |-> requestId, elapsed |-> elapsed,
                     showcaseUser |-> bag.showcaseUser]])

\* ------------------------------------------------------------ the pipeline
Routes == {"health", "error", "validation", "middleware", "query"}

\* app.use('/api/showcase/*', showcaseMiddleware): the routes under the prefix
UnderShowcase(route) == route \in {"error", "validation", "middleware", "query"}

Request(route, type, body) == [route |-> route, type |-> type, body |-> body]

JaneDoe ==
  Record(<< <<"name", Str(<<"J", "a", "n", "e">>)>>,
            <<"email", Str(<<"a", "@", "b", ".", "c">>)>>,
            <<"age", Num(28)>> >>)

\* the requests of the interleaved specification: one per route and outcome
Requests ==
  { Request("health", NoParam, NoBody),
    Request("middleware", NoParam, NoBody),
    Request("error", Param("notfound"), NoBody),
    Request("error", Param("server"), NoBody),
    Request("validation", NoParam, Json(JaneDoe)) }

\* every validation request
ValidationRequests ==
  { Request("validation", NoParam, b) :
      b \in {Malformed} \cup { Json(v) : v \in Records \cup NonRecords } }

\* query strings as URLSearchParams iterates them: (key, value) in order
QueryKeys   == {"a", "b"}
QueryValues == {"1", "2"}
QueryStrings ==
  UNION { [1..n -> QueryKeys \X QueryValues] : n \in 0..MaxPairs }

\* GET /api/showcase/routing/query?...
QueryRequest(search) ==
  [route |-> "query", type |-> NoParam, body |-> NoBody, search |-> search]

\* every request of the model
AllRequests ==
  { Request("health", NoParam, NoBody), Request("middleware", NoParam, NoBody) }
    \cup { Request("error", q, NoBody) : q \in TypeParams }
    \cup ValidationRequests
    \cup { QueryRequest(q) : q \in QueryStrings }

\* the identifier built from the time alone
RequestId_TimeOnly(now, n) == Str(<<"hono-", now>>)

\* `hono-${Date.now()}-${requestCounter}`
RequestId(now, n) == Str(<<"hono-", now, "-", n>>)

EmptyBag == [requestId |-> Undef, startedAt |-> Undef, showcaseUser |-> Undef]
NoHeaders ==
  [XRequestId |-> Undef, XPoweredBy |-> Undef, XHonoVersion |-> Undef,
   XResponseTime |-> Undef]

\* c.set('startedAt', ...) given a later clock reading than the const
PreStore_LaterReading(requestId, startedAt) ==
  [requestId |-> requestId, startedAt |-> Num(startedAt + 1),
   showcaseUser |-> [id |-> "demo", role |-> "viewer"]]

\* middleware/showcase.js: the three c.set() calls
PreStore(requestId, startedAt) ==
  [requestId |-> requestId, startedAt |-> Num(startedAt),
   showcaseUser |-> [id |-> "demo", role |-> "viewer"]]

\* middleware/showcase.js: the three c.header() calls before next()
PreHeaders(h, requestId) ==
  [h EXCEPT !.XRequestId = requestId, !.XPoweredBy = "Hono", !.XHonoVersion = "4.x"]

\* the middleware registered for every path
AfterArrive_AllPaths(route) == "pre"
\* where a request goes first: through the middleware only under the prefix
AfterArrive(route) == IF UnderShowcase(route) THEN "pre" ELSE "handler"

\* where a request goes once it has a response: back through the middleware
AfterResponse(route) == IF UnderShowcase(route) THEN "post" ELSE "done"

Init ==
  /\ requestCounter = 0
  /\ clock = 1
  /\ pc = [r \in Req |-> "idle"]
  /\ req = [r \in Req |-> None]
  /\ store = [r \in Req |-> EmptyBag]
  /\ local = [r \in Req |-> None]
  /\ hdr = [r \in Req |-> NoHeaders]
  /\ res = [r \in Req |-> None]
  /\ raised = [r \in Req |-> None]
  /\ answered = [r \in Req |-> << >>]
  /\ trace = [r \in Req |-> << >>]
  /\ postSaw = [r \in Req |-> None]
  /\ skind = [s \in Streams |-> "none"]
  /\ spc = [s \in Streams |-> "idle"]
  /\ idx = [s \in Streams |-> 0]
  /\ sent = [s \in Streams |-> << >>]
  /\ aborted = [s \in Streams |-> FALSE]
  /\ cmode = "none"
  /\ cpc = "idle"
  /\ got = 0
  /\ buf = << >>
  /\ shown = << >>
  /\ issued = 0
  /\ flying = {}
  /\ loading = FALSE
  /\ response = None
  /\ responseStatus = None
  /\ responseHeaders = {}
  /\ lastAction = ""
  /\ methodChainMethod = None
  /\ activeFeature = "routing"
  /\ requestLog = << >>
  /\ running = [k \in {"stream", "sse"} |-> FALSE]
  /\ loops = [k \in {"stream", "sse"} |-> 0]
  /\ output = [k \in {"stream", "sse"} |-> << >>]
  /\ untouched = FALSE
  /\ wake = [s \in Streams |-> 0]
  /\ attempts = [s \in Streams |-> 0]
  /\ t0 = [s \in Streams |-> 0]

\* the clock moves between any two steps
Tick ==
  /\ clock < MaxClock
  /\ clock' = clock + 1
  /\ UNCHANGED <<requestCounter, pc, req, store, local, hdr, res, raised,
                 answered, trace, postSaw>>
  /\ UNCHANGED outsidePipeline

\* a request reaches the router
Arrive(r, q) ==
  /\ pc[r] = "idle"
  /\ req' = [req EXCEPT ![r] = q]
  /\ pc' = [pc EXCEPT ![r] = AfterArrive(q.route)]
  /\ UNCHANGED <<requestCounter, clock, store, local, hdr, res, raised,
                 answered, trace, postSaw>>
  /\ UNCHANGED outsidePipeline

\* showcaseMiddleware up to await next(); Date.now() is read twice
PrePhase(r) ==
  /\ pc[r] = "pre"
  /\ \E now2 \in {clock, clock + 1} :
       /\ now2 <= MaxClock
       /\ LET n == requestCounter + 1
              requestId == RequestId(clock, n)
              startedAt == now2
          IN /\ requestCounter' = n
             /\ clock' = now2
             /\ local' = [local EXCEPT ![r] =
                            [requestId |-> requestId, startedAt |-> startedAt]]
             /\ store' = [store EXCEPT ![r] = PreStore(requestId, startedAt)]
             /\ hdr' = [hdr EXCEPT ![r] = PreHeaders(@, requestId)]
  /\ pc' = [pc EXCEPT ![r] = "handler"]
  /\ trace' = [trace EXCEPT ![r] = Append(@, "pre")]
  /\ UNCHANGED <<req, res, raised, answered, postSaw>>
  /\ UNCHANGED outsidePipeline

\* the router takes what the handler gave: a response, or an error for onError
Settle(r, out) ==
  /\ IF out.threw
       THEN /\ raised' = [raised EXCEPT ![r] = out.err]
            /\ pc' = [pc EXCEPT ![r] = "onError"]
            /\ UNCHANGED res
       ELSE /\ res' = [res EXCEPT ![r] = [status |-> out.status, body |-> out.body]]
            /\ pc' = [pc EXCEPT ![r] = AfterResponse(req[r].route)]
            /\ UNCHANGED raised
  /\ trace' = [trace EXCEPT ![r] = Append(@, "handler")]
  /\ UNCHANGED <<requestCounter, clock, req, store, local, hdr, answered, postSaw>>
  /\ UNCHANGED outsidePipeline

Health(r) ==
  /\ pc[r] = "handler" /\ req[r].route = "health"
  /\ Settle(r, health(clock))

ErrorDemo(r) ==
  /\ pc[r] = "handler" /\ req[r].route = "error"
  /\ Settle(r, errorDemo(req[r].type))

ValidationDemo(r) ==
  /\ pc[r] = "handler" /\ req[r].route = "validation"
  /\ Settle(r, validationDemo(req[r].body))

\* the bag of the request whose pre-phase ran last
LatestBag ==
  LET S == { x \in Req : store[x] # EmptyBag } IN
  IF S = {} THEN EmptyBag
  ELSE store[CHOOSE x \in S : \A y \in S : store[y].requestId.v[4] <= store[x].requestId.v[4]]

\* c.get() reading one bag shared by all requests
CtxOf_Latest(r) == LatestBag

\* c.get(): the values set on this request's own context
CtxOf(r) == store[r]

RoutingQuery(r) ==
  /\ pc[r] = "handler" /\ req[r].route = "query"
  /\ Settle(r, routingQuery(req[r].search))

MiddlewareDemo(r) ==
  /\ pc[r] = "handler" /\ req[r].route = "middleware"
  /\ Settle(r, middlewareDemo(CtxOf(r), clock))

\* the error response leaving the pipeline without the middleware resuming
OnError_SkipsPost(r) ==
  /\ pc[r] = "onError"
  /\ LET out == onError(raised[r]) IN
       /\ res' = [res EXCEPT ![r] = [status |-> out.status, body |-> out.body]]
       /\ answered' = [answered EXCEPT ![r] = Append(@, out.path)]
  /\ pc' = [pc EXCEPT ![r] = "done"]
  /\ trace' = [trace EXCEPT ![r] = Append(@, "onError")]
  /\ UNCHANGED <<requestCounter, clock, req, store, local, hdr, raised, postSaw>>
  /\ UNCHANGED outsidePipeline

\* app.onError answers the error the handler threw
OnError(r) ==
  /\ pc[r] = "onError"
  /\ LET out == onError(raised[r]) IN
       /\ res' = [res EXCEPT ![r] = [status |-> out.status, body |-> out.body]]
       /\ answered' = [answered EXCEPT ![r] = Append(@, out.path)]
  /\ pc' = [pc EXCEPT ![r] = AfterResponse(req[r].route)]
  /\ trace' = [trace EXCEPT ![r] = Append(@, "onError")]
  /\ UNCHANGED <<requestCounter, clock, req, store, local, hdr, raised, postSaw>>
  /\ UNCHANGED outsidePipeline

\* startedAt kept in one variable shared by all requests
PostStartedAt_Latest(r) == LatestBag.startedAt.v

\* the start time line 23 subtracts: the middleware's own const
PostStartedAt(r) == local[r].startedAt

\* showcaseMiddleware after await next()
PostPhase(r) ==
  /\ pc[r] = "post"
  /\ LET elapsed == clock - PostStartedAt(r) IN
       hdr' = [hdr EXCEPT ![r].XResponseTime = [ms |-> elapsed]]
  /\ postSaw' = [postSaw EXCEPT ![r] = PostStartedAt(r)]
  /\ pc' = [pc EXCEPT ![r] = "done"]
  /\ trace' = [trace EXCEPT ![r] = Append(@, "post")]
  /\ UNCHANGED <<requestCounter, clock, req, store, local, res, raised, answered>>
  /\ UNCHANGED outsidePipeline

Next ==
  \/ Tick
  \/ \E r \in Req : \E q \in Requests : Arrive(r, q)
  \/ \E r \in Req : PrePhase(r)
  \/ \E r \in Req : Health(r)
  \/ \E r \in Req : ErrorDemo(r)
  \/ \E r \in Req : ValidationDemo(r)
  \/ \E r \in Req : MiddlewareDemo(r)
  \/ \E r \in Req : OnError(r)
  \/ \E r \in Req : PostPhase(r)

Spec == Init /\ [][Next]_vars

\* a single request, over every request of the model
NextSingle ==
  \/ Tick
  \/ \E q \in AllRequests : Arrive(1, q)
  \/ PrePhase(1)
  \/ Health(1)
  \/ ErrorDemo(1)
  \/ ValidationDemo(1)
  \/ MiddlewareDemo(1)
  \/ RoutingQuery(1)
  \/ OnError(1)
  \/ PostPhase(1)

SpecSingle == Init /\ [][NextSingle]_vars

\* ------------------------------------------------- streaming and SSE demo
StreamSleepMs == 350   \* s.sleep(350)
SsePauseMs    == 500   \* setTimeout(r, 500)
SseEvents     == 6     \* for (let i = 0; i < 6; i++)

\* app.js GET /api/showcase/streaming: the lines, built when the handler runs
lines(now) ==
  << [text |-> "Hono streaming started..."],
     [text |-> "Chunk 1 - streamed at", at |-> now],
     [text |-> "Chunk 2 - Hono supports ReadableStream natively"],
     [text |-> "Chunk 3 - Works on Node.js, Cloudflare Workers, Deno, Bun"],
     [text |-> "Stream complete!"] >>

\* the counter taken as the loop variable itself
SseCount_ZeroBased(i) == i

\* i + 1
SseCount(i) == i + 1

\* app.js GET /api/showcase/sse: the event of iteration i
SseMessage(i, now) ==
  [event |-> "message",
   data |-> [count |-> SseCount(i), ts |-> now,
             msg |-> <<"Server-Sent Event #", SseCount(i)>>]]

\* app.js GET /api/showcase/sse: the event after the loop
SseDone == [event |-> "done", data |-> [msg |-> "Stream ended"]]

\* a timer that is due at once
WakeAt_NoPause(now, ms) == now

\* s.sleep(ms) / setTimeout(r, ms): when the timer is due
WakeAt(now, ms) == now + ms

\* the loop position taken over from a stream that is still running
StartIndex_Shared(s) ==
  LET S == { x \in Streams : x # s /\ spc[x] \notin {"idle", "closed"} } IN
  IF S = {} THEN 0 ELSE idx[CHOOSE x \in S : TRUE]

\* for (const line of lines) / let i = 0: every invocation starts its own loop
StartIndex(s) == 0

LoopLen(kind) == IF kind = "stream" THEN Len(lines(0)) ELSE SseEvents
Pause(kind)   == IF kind = "stream" THEN StreamSleepMs ELSE SsePauseMs

\* the callback reaches the loop test with index i at time now: it writes
\* line or event i, or leaves the loop (the SSE callback then writes done);
\* a write on an aborted stream is attempted and fails silently
Iterate(s, kind, i, made, now) ==
  LET n      == LoopLen(kind)
      writes == i < n \/ kind = "sse"
      chunk  == IF i < n
                  THEN (IF kind = "stream" THEN lines(made)[i + 1] ELSE SseMessage(i, now))
                  ELSE SseDone
  IN /\ idx' = [idx EXCEPT ![s] = i]
     /\ spc' = [spc EXCEPT ![s] = IF i < n THEN "writing"
                                  ELSE IF kind = "sse" THEN "writingDone"
                                  ELSE "closed"]
     /\ attempts' = [attempts EXCEPT ![s] = IF writes THEN @ + 1 ELSE @]
     /\ sent' = [sent EXCEPT ![s] =
                   IF writes /\ ~aborted[s]
                     THEN Append(@, [chunk |-> chunk, t |-> now]) ELSE @]

pipeVars == <<requestCounter, pc, req, store, local, hdr, res, raised, answered,
              trace, postSaw>>

\* the handler returns stream(c, ...) / streamSSE(c, ...): the callback starts
StartStream(s, kind) ==
  /\ spc[s] = "idle"
  /\ skind' = [skind EXCEPT ![s] = kind]
  /\ t0' = [t0 EXCEPT ![s] = clock]
  /\ wake' = [wake EXCEPT ![s] = clock]
  /\ Iterate(s, kind, StartIndex(s), clock, clock)
  /\ UNCHANGED <<clock, aborted, pipeVars, pageVars, clientVars>>

\* await s.write() / s.writeSSE() returns: the pause begins, or the stream
\* closes after the done event
Written(s) ==
  /\ spc[s] \in {"writing", "writingDone"}
  /\ IF spc[s] = "writing"
       THEN /\ spc' = [spc EXCEPT ![s] = "sleeping"]
            /\ wake' = [wake EXCEPT ![s] = WakeAt(@, Pause(skind[s]))]
       ELSE /\ spc' = [spc EXCEPT ![s] = "closed"]
            /\ UNCHANGED wake
  /\ UNCHANGED <<clock, skind, idx, sent, aborted, attempts, t0, pipeVars, pageVars,
                 clientVars>>

\* the timer fires: the next iteration begins.  Each stream keeps its own
\* time line, every timer taken at the time it is due (it never fires early)
Wake(s) ==
  /\ spc[s] = "sleeping"
  /\ Iterate(s, skind[s], idx[s] + 1, t0[s], wake[s])
  /\ UNCHANGED <<clock, skind, aborted, wake, t0, pipeVars, pageVars, clientVars>>

\* the client closes the connection
Abort(s) ==
  /\ spc[s] \notin {"idle", "closed"}
  /\ ~aborted[s]
  /\ aborted' = [aborted EXCEPT ![s] = TRUE]
  /\ UNCHANGED <<clock, skind, spc, idx, sent, wake, attempts, t0, pipeVars, pageVars,
                 clientVars>>

NextStream ==
  \/ \E s \in Streams : \E kind \in {"stream", "sse"} : StartStream(s, kind)
  \/ \E s \in Streams : Written(s)
  \/ \E s \in Streams : Wake(s)
  \/ \E s \in Streams : Abort(s)

\* writes complete and timers fire; starting and aborting are up to the client
SpecStream ==
  /\ Init
  /\ [][NextStream]_vars
  /\ \A s \in Streams : WF_vars(Written(s)) /\ WF_vars(Wake(s))

\* one streaming response on its own, of either kind
NextStreamOne ==
  \/ \E kind \in {"stream", "sse"} : StartStream(1, kind)
  \/ Written(1)
  \/ Wake(1)
  \/ Abort(1)

SpecStreamOne ==
  /\ Init
  /\ [][NextStreamOne]_vars
  /\ WF_vars(Written(1)) /\ WF_vars(Wake(1))

\* ---------------------------------------------------------- the demo client
\* The response body travels as UTF-8 bytes.  A byte is [c, i, n, v]: the
\* i-th of the n bytes of character c; v is what an abbreviated stretch of
\* text stands for.  Only the leading character of each streamed line is
\* kept at byte level; the rest of a line is one unit of ASCII text.
Byte(c, i, n) == [c |-> c, i |-> i, n |-> n, v |-> None]
Ascii(c)      == Byte(c, 1, 1)
Unit(c, v)    == [c |-> c, i |-> 1, n |-> 1, v |-> v]
Utf8(c, n)    == [i \in 1..n |-> Byte(c, i, n)]
Text(str)     == [i \in 1..Len(str) |-> Ascii(str[i])]

\* a decoded character; U+FFFD is what the decoder puts for broken input
Char(c, v) == [c |-> c, v |-> v]
FFFD       == Char("FFFD", None)

\* the first character of each line of the streaming demo and its length
\* in UTF-8
LeadChar(text) ==
  CASE text = "Hono streaming started..." -> Utf8("fire", 4)
    [] text = "Chunk 1 - streamed at"     -> Utf8("zap", 3)
    [] text = "Chunk 2 - Hono supports ReadableStream natively" -> Utf8("package", 4)
    [] text = "Chunk 3 - Works on Node.js, Cloudflare Workers, Deno, Bun" -> Utf8("rocket", 4)
    [] text = "Stream complete!"          -> Utf8("check", 3)

\* s.write(line + '\n')
EncodeLine(chunk) ==
  LeadChar(chunk.text) \o << Ascii(" "), Unit("text", chunk), Ascii("\n") >>

\* s.writeSSE({event, data: JSON.stringify(...)}) as Hono frames it:
\* "event: <name>\ndata: <json>\n\n"
EncodeSSE(chunk) ==
  Text(<<"e", "v", "e", "n", "t", ":", " ">>)
    \o << Unit("name", chunk.event), Ascii("\n") >>
    \o Text(<<"d", "a", "t", "a", ":", " ">>)
    \o << Ascii("{"), Unit("members", chunk.data), Ascii("}") >>
    \o << Ascii("\n"), Ascii("\n") >>

Encode(kind, chunk) ==
  IF kind = "stream" THEN EncodeLine(chunk) ELSE EncodeSSE(chunk)

RECURSIVE Concat(_, _)
Concat(kind, entries) ==
  IF entries = << >> THEN << >>
  ELSE Encode(kind, Head(entries).chunk) \o Concat(kind, Tail(entries))

\* the bytes of the response body of stream 1 written so far
Wire == Concat(skind[1], sent[1])

\* new TextDecoder().decode(value), without {stream: true}: every call
\* decodes its chunk on its own.  A character cut off by the end of the
\* chunk gives one U+FFFD, each continuation byte without its lead gives one.
RECURSIVE Decode(_)
Decode(value) ==
  IF value = << >> THEN << >>
  ELSE LET b == Head(value) IN
    IF b.i # 1 THEN <<FFFD>> \o Decode(Tail(value))
    ELSE IF b.n > Len(value) THEN <<FFFD>>
    ELSE <<Char(b.c, b.v)>> \o Decode(SubSeq(value, b.n + 1, Len(value)))

\* white space as trim() sees it
IsSpace(ch) == ch.c \in {" ", "\n"}

\* String.prototype.trim
RECURSIVE Trim(_)
Trim(str) ==
  IF str = << >> THEN str
  ELSE IF IsSpace(Head(str)) THEN Trim(Tail(str))
  ELSE IF IsSpace(str[Len(str)]) THEN Trim(SubSeq(str, 1, Len(str) - 1))
  ELSE str

RECURSIVE Split(_)
\* str.split('\n') that never finds a line end
Split_Unsplit(str) == <<str>>
\* str.split('\n')
Split(str) ==
  IF \A i \in DOMAIN str : str[i].c # "\n" THEN <<str>>
  ELSE LET at == CHOOSE i \in DOMAIN str :
                   /\ str[i].c = "\n"
                   /\ \A j \in 1..(i - 1) : str[j].c # "\n"
       IN <<SubSeq(str, 1, at - 1)>> \o Split(SubSeq(str, at + 1, Len(str)))

\* lines.pop() takes the last piece away; these are the others
Popped(pieces) == SubSeq(pieces, 1, Len(pieces) - 1)

\* line.startsWith('data: ')
StartsWithData(line) ==
  /\ Len(line) >= 6
  /\ [i \in 1..6 |-> line[i].c] = <<"d", "a", "t", "a", ":", " ">>

\* JSON.parse(line.slice(6)) of what JSON.stringify wrote: an object text
\* parses when it is whole
JsonParses(str) ==
  /\ Len(str) = 3
  /\ str[1].c = "{" /\ str[2].c = "members" /\ str[3].c = "}"
JsonParse(str) == str[2].v

RECURSIVE PushLines(_, _)
\* for (const l of lines) if (l.trim()) streamOutput.value.push(l.trim())
PushLines(list, pieces) ==
  IF pieces = << >> THEN list
  ELSE LET l == Trim(Head(pieces)) IN
    PushLines(IF l # << >> THEN Append(list, l) ELSE list, Tail(pieces))

RECURSIVE PushEvents(_, _)
\* if (line.startsWith('data: ')) try { push(JSON.parse(line.slice(6))) } catch {}
PushEvents(list, pieces) ==
  IF pieces = << >> THEN list
  ELSE LET line == Head(pieces)
           rest == SubSeq(line, 7, Len(line)) IN
    PushEvents(IF StartsWithData(line) /\ JsonParses(rest)
               THEN Append(list, JsonParse(rest)) ELSE list, Tail(pieces))

\* the client functions: "list" is startStream of the showcase page that
\* keeps a list of lines, "text" the startStream that keeps one string,
\* "events" startSSE
Modes == {"list", "text", "events"}
Endpoint(mode) == IF mode = "events" THEN "sse" ELSE "stream"

\* await fetch(...) has resolved: the response has begun
Fetch(mode) ==
  /\ cpc = "idle" /\ spc[1] # "idle" /\ skind[1] = Endpoint(mode)
  /\ cmode' = mode
  /\ cpc' = "reading"
  /\ got' = 0 /\ buf' = << >> /\ shown' = << >>
  /\ UNCHANGED <<clock, pipeVars, pageVars, streamVars>>

\* one turn of the while loop with done false: reader.read() delivered the
\* next n bytes of the body
Read(n) ==
  /\ cpc = "reading"
  /\ got + n <= Len(Wire)
  /\ LET value  == SubSeq(Wire, got + 1, got + n)
         joined == buf \o Decode(value)
         pieces == Split(joined)
     IN /\ got' = got + n
        /\ IF cmode = "text"
           THEN /\ shown' = shown \o Decode(value)
                /\ UNCHANGED buf
           ELSE /\ buf' = pieces[Len(pieces)]
                /\ shown' = IF cmode = "list"
                            THEN PushLines(shown, Popped(pieces))
                            ELSE PushEvents(shown, Popped(pieces))
  /\ UNCHANGED <<clock, cmode, cpc, pipeVars, pageVars, streamVars>>

\* reader.read() answered done: the body is read to its end and the server
\* has closed the stream
ReadDone ==
  /\ cpc = "reading"
  /\ spc[1] = "closed" /\ got = Len(Wire)
  /\ cpc' = "done"
  /\ shown' = IF cmode = "list" /\ Trim(buf) # << >>
              THEN Append(shown, Trim(buf)) ELSE shown
  /\ UNCHANGED <<clock, cmode, got, buf, pipeVars, pageVars, streamVars>>

NextClient ==
  \/ \E kind \in {"stream", "sse"} : StartStream(1, kind)
  \/ Written(1)
  \/ Wake(1)
  \/ \E mode \in Modes : Fetch(mode)
  \/ \E n \in 1..MaxChunk : Read(n)
  \/ ReadDone

SpecClient ==
  /\ Init
  /\ [][NextClient]_vars
  /\ WF_vars(Written(1)) /\ WF_vars(Wake(1))

\* --------------------------------------------------------- the showcase page
\* The page of part_002 (lastAction, switchFeature, result card) and that of
\* HonoShowcaseView.vue (requestLog) share fireRequest, startStream and
\* startSSE: one page with the state of both is modelled.  Here the read
\* loops count by whole lines and events; their bytes are in the section
\* above.
LogCap == 20   \* if (requestLog.value.length > 20) requestLog.value.pop()

Kinds        == {"stream", "sse"}
RequestDemos == {"basic", "methods"}
Features     == {"routing", "streaming"}
Methods      == {"POST"}

\* what api.request() settles with: a response with its status, or none
\* (network failure); a status outside 2xx rejects with err.response
Answer(status) == [arrived |-> TRUE, status |-> status]
NoAnswer       == [arrived |-> FALSE]
Outcomes       == {Answer(200), Answer(422), NoAnswer}
Resolves(o)    == o.arrived /\ o.status >= 200 /\ o.status < 300

\* err.response?.status || 0
StatusOf(o) == IF o.arrived /\ o.status # 0 THEN o.status ELSE 0

\* res.data, or err.response?.data || { error: err.message }, of call n
DataOf(n, o) ==
  [n |-> n, data |-> IF o.arrived THEN "body" ELSE "error.message"]

\* an entry pushed at the end of the list, the first one dropped
addLog_Appends(log, entry) ==
  LET l == Append(log, entry) IN
  IF Len(l) > LogCap THEN Tail(l) ELSE l
\* addLog: unshift the entry, pop the last one beyond twenty
addLog(log, entry) ==
  LET l == <<entry>> \o log IN
  IF Len(l) > LogCap THEN SubSeq(l, 1, Len(l) - 1) ELSE l

Failed(entry) == entry.status = 0 \/ entry.status >= 400
FailuresIn(log) == Cardinality({ i \in DOMAIN log : Failed(log[i]) })

\* the result card of part_002 and the log line of HonoShowcaseView.vue:
\* responseStatus >= 400 ? 'Rejected' : 'Success'
Presented(status) == IF status >= 400 THEN "Rejected" ELSE "Success"

\* fireRequest up to await api.request(cfg)
FireRequest(demo, limit, width) ==
  /\ issued < limit
  /\ Cardinality(flying) < width
  /\ issued' = issued + 1
  /\ flying' = flying \cup {[n |-> issued + 1, demo |-> demo]}
  /\ loading' = TRUE
  /\ response' = None
  /\ responseHeaders' = {}
  /\ responseStatus' = None

\* onMounted(() => fireRequest('GET', '/api/showcase/routing/basic'))
Mount ==
  /\ issued = 0
  /\ FireRequest("mount", MaxCalls, MaxFlight)
  /\ UNCHANGED <<lastAction, methodChainMethod, activeFeature, requestLog,
                 running, loops, output, untouched>>
  /\ UNCHANGED <<clock, pipeVars, streamVars, clientVars>>

\* runDemo of a demo that fires a request; the method buttons set
\* methodChainMethod first
RunDemo(demo, limit, width) ==
  /\ issued > 0
  /\ lastAction' = demo
  /\ methodChainMethod' =
       IF demo = "methods" THEN CHOOSE m \in Methods : TRUE ELSE methodChainMethod
  /\ untouched' = FALSE
  /\ FireRequest(demo, limit, width)
  /\ UNCHANGED <<activeFeature, requestLog, running, loops, output>>
  /\ UNCHANGED <<clock, pipeVars, streamVars, clientVars>>

\* fireRequest from the answer on: the try block or the catch block, then
\* finally; at most budget failures stand in the log
Complete(n, o, budget) ==
  /\ \E call \in flying : call.n = n
  /\ Resolves(o) \/ FailuresIn(requestLog) < budget
  /\ flying' = { call \in flying : call.n # n }
  /\ response' = DataOf(n, o)
  /\ responseStatus' = StatusOf(o)
  /\ responseHeaders' = IF Resolves(o) THEN {n} ELSE responseHeaders
  /\ requestLog' = addLog(requestLog, [n |-> n, status |-> StatusOf(o)])
  /\ loading' = FALSE
  /\ UNCHANGED <<issued, lastAction, methodChainMethod, activeFeature, running,
                 loops, output, untouched>>
  /\ UNCHANGED <<clock, pipeVars, streamVars, clientVars>>

\* a guard that never holds anyone back
Busy_Never(kind) == FALSE
\* if (isStreaming.value) return / if (isSseRunning.value) return
Busy(kind) == running[kind]

\* runDemo of the stream or the SSE demo: startStream / startSSE up to fetch
RunStreamDemo(kind) ==
  /\ issued > 0
  /\ issued < MaxCalls
  /\ loops[kind] < MaxLoops
  /\ lastAction' = kind
  /\ untouched' = FALSE
  /\ IF Busy(kind)
       THEN UNCHANGED <<issued, running, loops, output>>
       ELSE /\ issued' = issued + 1
            /\ running' = [running EXCEPT ![kind] = TRUE]
            /\ output' = [output EXCEPT ![kind] = << >>]
            /\ loops' = [loops EXCEPT ![kind] = @ + 1]
  /\ UNCHANGED <<flying, loading, response, responseStatus, responseHeaders,
                 methodChainMethod, activeFeature, requestLog>>
  /\ UNCHANGED <<clock, pipeVars, streamVars, clientVars>>

\* a turn of a read loop that completes a line or an event: push
StreamPush(kind) ==
  /\ loops[kind] > 0
  /\ Len(output[kind]) < MaxUnits
  /\ output' = [output EXCEPT ![kind] = Append(@, "unit")]
  /\ UNCHANGED <<issued, flying, loading, response, responseStatus,
                 responseHeaders, lastAction, methodChainMethod, activeFeature,
                 requestLog, running, loops, untouched>>
  /\ UNCHANGED <<clock, pipeVars, streamVars, clientVars>>

\* a read loop ends, with done or with an error thrown by fetch or read:
\* catch pushes the error, finally clears the flag; the page that keeps a
\* log adds the stream that was read to its end (status 200, no call number)
StreamEnd(kind, how) ==
  /\ loops[kind] > 0
  /\ loops' = [loops EXCEPT ![kind] = @ - 1]
  /\ running' = [running EXCEPT ![kind] = FALSE]
  /\ output' = [output EXCEPT ![kind] =
                  IF how = "error" THEN Append(@, "Error") ELSE @]
  /\ requestLog' = IF how = "done"
                     THEN addLog(requestLog, [n |-> 0, status |-> 200])
                     ELSE requestLog
  /\ UNCHANGED <<issued, flying, loading, response, responseStatus,
                 responseHeaders, lastAction, methodChainMethod, activeFeature,
                 untouched>>
  /\ UNCHANGED <<clock, pipeVars, streamVars, clientVars>>

\* switchFeature(id)
SwitchFeature(id) ==
  /\ issued > 0
  /\ activeFeature' = id
  /\ response' = None
  /\ responseHeaders' = {}
  /\ responseStatus' = None
  /\ output' = [k \in Kinds |-> << >>]
  /\ lastAction' = ""
  /\ methodChainMethod' = None
  /\ untouched' = TRUE
  /\ UNCHANGED <<issued, flying, loading, requestLog, running, loops>>
  /\ UNCHANGED <<clock, pipeVars, streamVars, clientVars>>

NextPage ==
  \/ Mount
  \/ \E demo \in RequestDemos : RunDemo(demo, MaxCalls, MaxFlight)
  \/ \E n \in 1..MaxCalls : \E o \in Outcomes : Complete(n, o, MaxCalls)
  \/ \E kind \in Kinds : RunStreamDemo(kind)
  \/ \E kind \in Kinds : StreamPush(kind)
  \/ \E kind \in Kinds : \E how \in {"done", "error"} : StreamEnd(kind, how)
  \/ \E id \in Features : SwitchFeature(id)

SpecPage == Init /\ [][NextPage]_vars

\* requests fired one after the other, each awaited, to fill the log
NextLog ==
  \/ Mount
  \/ \E demo \in RequestDemos : RunDemo(demo, LogCalls, 1)
  \/ \E n \in 1..LogCalls : \E o \in Outcomes : Complete(n, o, MaxFailures)

SpecLog == Init /\ [][NextLog]_vars

\* ------------------------------------------------------------------ claims
IsRoute(r, route) == pc[r] # "idle" /\ req[r].route = route
Responded(r)      == pc[r] # "idle" /\ res[r] # None
Faulted(r)        == pc[r] # "idle" /\ raised[r] # None

\* C1: an error that is not an HTTPException is answered with status 500 and
\* a message that is not the message of the error that was raised.
C1_UnknownFaultNotLeaked ==
  \A r \in Req :
    (Faulted(r) /\ ~IsHTTPException(raised[r]) /\ Responded(r)) =>
      /\ res[r].status = 500
      /\ res[r].body.error.message # raised[r].message

C3_KnownFaultEchoed ==
  \A r \in Req :
    (Faulted(r) /\ IsHTTPException(raised[r]) /\ Responded(r)) =>
      /\ res[r].status = raised[r].status
      /\ res[r].body.error.status = raised[r].status
      /\ res[r].body.error.message = raised[r].message

C3_Witness ==
  \E r \in Req :
    /\ pc[r] = "done" /\ IsRoute(r, "error")
    /\ raised[r] = HTTPException(404, "Resource not found - intentional 404")
    /\ res[r].status = 404

\* the body {error: {code, status?, message}}
StructuredError(body) ==
  /\ "error" \in DOMAIN body
  /\ {"code", "message"} \subseteq DOMAIN body.error
  /\ DOMAIN body.error \subseteq {"code", "status", "message"}

\* the statuses of the error demo for the three named types
ErrorDemoNamedTypes(r) ==
  /\ req[r].type = Param("http") => res[r].status = 422 /\ StructuredError(res[r].body)
  /\ req[r].type = Param("notfound") => res[r].status = 404 /\ StructuredError(res[r].body)
  /\ req[r].type = Param("server") => res[r].status = 500 /\ StructuredError(res[r].body)
  /\ req[r].type = NoParam => res[r].status = 422 /\ StructuredError(res[r].body)

\* C4 as stated: 422 for http, 404 for notfound, 500 for server, an absent
\* type is treated as http, and every other type value answers 200 without
\* raising a fault.
C4_Original ==
  \A r \in Req :
    (IsRoute(r, "error") /\ Responded(r)) =>
      /\ ErrorDemoNamedTypes(r)
      /\ req[r].type \notin {NoParam, Param("http"), Param("notfound"), Param("server")}
           => res[r].status = 200 /\ raised[r] = None

\* C4 amended: 422 for http, 404 for notfound, 500 for server, an absent or
\* empty type is treated as http, and every other non-empty type value
\* answers 200 without raising a fault.
C4_ErrorDemoStatuses ==
  \A r \in Req :
    (IsRoute(r, "error") /\ Responded(r)) =>
      /\ ErrorDemoNamedTypes(r)
      /\ req[r].type = Param("") => res[r].status = 422 /\ StructuredError(res[r].body)
      /\ req[r].type \notin {NoParam, Param(""), Param("http"), Param("notfound"),
                             Param("server")}
           => res[r].status = 200 /\ raised[r] = None

C4_Witness ==
  \E r \in Req :
    /\ pc[r] = "done" /\ IsRoute(r, "error") /\ req[r].type = Param("")
    /\ res[r].status = 422 /\ answered[r] = <<"known">>

\* ---- the validator's rules, as the specification words them
Submitted(r) == req[r].body.value
Present(b, k) == b.t = "object" /\ k \in DOMAIN b.f
IsString(b, k) == Present(b, k) /\ b.f[k].t = "string"
IsNumber(b, k) == Present(b, k) /\ b.f[k].t = "number"

NameBad(b)  == ~IsString(b, "name") \/ Len(b.f["name"].v) < 2
EmailBad(b) == ~IsString(b, "email") \/ ~EmailRegexTest(b.f["email"].v)
AgeBad(b)   ==
  Present(b, "age") /\ (~IsNumber(b, "age") \/ b.f["age"].v < 0 \/ b.f["age"].v > 150)

FieldBad(b, k) ==
  CASE k = "name" -> NameBad(b) [] k = "email" -> EmailBad(b) [] OTHER -> AgeBad(b)

\* a validation request whose body parsed to a value the checks ran on
Validated(r) ==
  /\ IsRoute(r, "validation") /\ Responded(r)
  /\ req[r].body.wellFormed /\ Submitted(r) # Null

\* the errors list of a validation response (none is sent when it is empty)
ErrorsOf(r) == IF "errors" \in DOMAIN res[r].body THEN res[r].body.errors ELSE << >>
FieldsOf(errs) == [i \in DOMAIN errs |-> errs[i].field]

\* C5: the errors list names exactly the failing fields, in the order name,
\* email, age: a failing field contributes its error whether or not an
\* earlier field failed.
C5_ErrorsInDeclarationOrder ==
  \A r \in Req :
    Validated(r) =>
      FieldsOf(ErrorsOf(r)) =
        SelectSeq(<<"name", "email", "age">>, LAMBDA k : FieldBad(Submitted(r), k))

C5_Witness ==
  \E r \in Req :
    /\ Validated(r) /\ pc[r] = "done"
    /\ FieldsOf(ErrorsOf(r)) = <<"name", "email", "age">>

\* valid as the response carries it
ValidOf(r) ==
  IF "valid" \in DOMAIN res[r].body
    THEN (IF res[r].body.valid THEN "true" ELSE "false")
    ELSE "absent"

\* C6: a submission missing name or email or with an out-of-range age is
\* never marked valid; valid is true exactly when no error was found; the
\* status is 400 exactly when valid is false and 200 exactly when it is true.
C6_ValidIffNoErrors ==
  \A r \in Req :
    (IsRoute(r, "validation") /\ Responded(r)) =>
      /\ res[r].status = 400 <=> ValidOf(r) = "false"
      /\ res[r].status = 200 <=> ValidOf(r) = "true"
      /\ ValidOf(r) = "true" => "errors" \notin DOMAIN res[r].body
      /\ ValidOf(r) = "false" => Len(ErrorsOf(r)) >= 1
      /\ Validated(r) =>
           /\ ValidOf(r) = "true" <=>
                ~(NameBad(Submitted(r)) \/ EmailBad(Submitted(r)) \/ AgeBad(Submitted(r)))
           /\ ValidOf(r) # "absent"

C6_Witness ==
  \E r \in Req :
    /\ Validated(r) /\ pc[r] = "done"
    /\ ~Present(Submitted(r), "name") /\ ~EmailBad(Submitted(r)) /\ ~AgeBad(Submitted(r))
    /\ ValidOf(r) = "false" /\ res[r].status = 400

\* C7: a body that is not JSON is answered 400 with valid false and exactly
\* one error, on the field body.
C7_MalformedBody ==
  \A r \in Req :
    (IsRoute(r, "validation") /\ Responded(r) /\ ~req[r].body.wellFormed) =>
      /\ res[r].status = 400
      /\ ValidOf(r) = "false"
      /\ FieldsOf(ErrorsOf(r)) = <<"body">>

C7_Witness ==
  \E r \in Req :
    /\ IsRoute(r, "validation") /\ pc[r] = "done" /\ ~req[r].body.wellFormed
    /\ res[r].status = 400

\* C8: a record that passes every check is answered with valid true and
\* data equal to the submitted record: no field added, removed or changed.
C8_DataVerbatim ==
  \A r \in Req :
    (Validated(r) /\ ValidOf(r) = "true") =>
      /\ "data" \in DOMAIN res[r].body
      /\ res[r].body.data = Submitted(r)

C8_Witness ==
  \E r \in Req :
    /\ Validated(r) /\ pc[r] = "done" /\ ValidOf(r) = "true"
    /\ Present(Submitted(r), "extra") /\ Present(Submitted(r), "age")
    /\ res[r].body.data = Submitted(r)

AgeErrorCount(r) ==
  Cardinality({ i \in DOMAIN ErrorsOf(r) : ErrorsOf(r)[i].field = "age" })

\* C9: an absent age gives no age error; a present age is accepted exactly
\* when it is a number from 0 to 150, bounds included; a present age that is
\* not a number, or is out of range, gives exactly one age error.
C9_AgeOptionalInRange ==
  \A r \in Req :
    Validated(r) =>
      LET b == Submitted(r) IN
      /\ ~Present(b, "age") => AgeErrorCount(r) = 0
      /\ Present(b, "age") =>
           /\ AgeErrorCount(r) = 0 <=>
                (b.f["age"].t = "number" /\ 0 <= b.f["age"].v /\ b.f["age"].v <= 150)
           /\ AgeErrorCount(r) <= 1
           /\ b.f["age"].t # "number" => AgeErrorCount(r) = 1

C9_Witness ==
  \E r \in Req :
    /\ Validated(r) /\ pc[r] = "done"
    /\ Present(Submitted(r), "age") /\ Submitted(r).f["age"] = Num(150)
    /\ AgeErrorCount(r) = 0

\* C10: under the showcase prefix the handler begins only after the
\* pre-phase stored the identifier and the start time and set the identifier
\* header; the post-phase runs after the handler and subtracts exactly the
\* start time the pre-phase stored for that request.
C10_PreBeforeHandlerBeforePost ==
  \A r \in Req :
    (pc[r] # "idle" /\ UnderShowcase(req[r].route)) =>
      /\ pc[r] \in {"handler", "onError", "post", "done"} =>
           /\ trace[r][1] = "pre"
           /\ store[r].requestId # Undef
           /\ store[r].startedAt # Undef
           /\ hdr[r].XRequestId = store[r].requestId
      /\ pc[r] = "done" =>
           /\ trace[r] \in { <<"pre", "handler", "post">>,
                             <<"pre", "handler", "onError", "post">> }
           /\ postSaw[r] = store[r].startedAt.v

C10_Witness ==
  \E r1, r2 \in Req :
    /\ r1 # r2
    /\ pc[r1] = "done" /\ IsRoute(r1, "middleware")
    /\ pc[r2] = "done" /\ IsRoute(r2, "error")
    /\ postSaw[r1] # postSaw[r2]
    /\ postSaw[r1] = store[r1].startedAt.v

\* a request under the prefix whose pre-phase has run
PastPre(r) ==
  /\ pc[r] \in {"handler", "onError", "post", "done"}
  /\ UnderShowcase(req[r].route)

\* C11: any two requests that passed the pre-phase carry different request
\* identifiers, also when stamped with the same millisecond, and the counter
\* has counted every one of them.
C11_UniqueRequestIds ==
  /\ \A r1, r2 \in Req :
       (r1 # r2 /\ PastPre(r1) /\ PastPre(r2)) =>
         /\ store[r1].requestId # store[r2].requestId
         /\ hdr[r1].XRequestId # hdr[r2].XRequestId
  /\ requestCounter = Cardinality({ r \in Req : PastPre(r) })

C11_Witness ==
  \E r1, r2 \in Req :
    /\ r1 # r2 /\ PastPre(r1) /\ PastPre(r2)
    /\ store[r1].requestId.v[2] = store[r2].requestId.v[2]
    /\ store[r1].requestId # store[r2].requestId

\* C12: the requestId and startedAt a handler and the post-phase read are the
\* ones the pre-phase of the same request stored; the requestId in the body
\* of GET /api/showcase/middleware is the X-Request-Id of that response.
C12_OwnContextValues ==
  \A r \in Req :
    PastPre(r) =>
      /\ store[r].requestId = local[r].requestId
      /\ store[r].startedAt = Num(local[r].startedAt)
      /\ hdr[r].XRequestId = local[r].requestId
      /\ (IsRoute(r, "middleware") /\ Responded(r)) =>
           /\ res[r].body.context_from_middleware.requestId = hdr[r].XRequestId
           /\ res[r].body.context_from_middleware.requestId = local[r].requestId
      /\ pc[r] = "done" => postSaw[r] = local[r].startedAt

C12_Witness ==
  \E r1, r2 \in Req :
    /\ r1 # r2 /\ PastPre(r2)
    /\ pc[r1] = "done" /\ IsRoute(r1, "middleware")
    /\ store[r2].requestId.v[4] > store[r1].requestId.v[4]
    /\ res[r1].body.context_from_middleware.requestId = hdr[r1].XRequestId

\* C13: when the handler threw, the post-phase still runs: the response of
\* app.onError carries X-Response-Time as well as X-Request-Id.
C13_PostPhaseAfterFault ==
  \A r \in Req :
    (pc[r] = "done" /\ UnderShowcase(req[r].route) /\ Faulted(r)) =>
      /\ answered[r] # << >>
      /\ trace[r] = <<"pre", "handler", "onError", "post">>
      /\ hdr[r].XResponseTime # Undef
      /\ hdr[r].XRequestId = local[r].requestId

C13_Witness ==
  \E r1, r2 \in Req :
    /\ pc[r1] = "done" /\ Faulted(r1) /\ answered[r1] = <<"known">>
    /\ pc[r2] = "done" /\ Faulted(r2) /\ answered[r2] = <<"unknown">>
    /\ hdr[r1].XResponseTime # Undef /\ hdr[r2].XResponseTime # Undef

\* C14: the elapsed time in X-Response-Time is never negative, and it is at
\* least the time the handler itself saw pass since the pre-phase.
C14_ElapsedCoversHandler ==
  \A r \in Req :
    (pc[r] = "done" /\ UnderShowcase(req[r].route)) =>
      /\ hdr[r].XResponseTime.ms >= 0
      /\ hdr[r].XResponseTime.ms <= clock - local[r].startedAt
      /\ IsRoute(r, "middleware") =>
           /\ res[r].body.context_from_middleware.elapsed.known
           /\ hdr[r].XResponseTime.ms >= res[r].body.context_from_middleware.elapsed.ms

C14_Witness ==
  \E r \in Req :
    /\ pc[r] = "done" /\ IsRoute(r, "middleware")
    /\ res[r].body.context_from_middleware.elapsed.ms >= 1
    /\ hdr[r].XResponseTime.ms >= 1

\* ---- streaming claims
Started(s)   == spc[s] # "idle"
Closed(s)    == spc[s] = "closed"
LastSent(s)  == sent[s][Len(sent[s])]

\* what was written reached the response at strictly increasing times
StrictlyLater(s) ==
  \A k \in 1..(Len(sent[s]) - 1) : sent[s][k].t < sent[s][k + 1].t

\* the lines of the plain stream, in the order of the list, nothing else
FiveLinesInOrder(s) ==
  /\ Len(sent[s]) <= 5
  /\ \A k \in DOMAIN sent[s] : sent[s][k].chunk = lines(t0[s])[k]
  /\ StrictlyLater(s)
  /\ (Closed(s) /\ ~aborted[s]) => Len(sent[s]) = 5

\* C15: an uncancelled streaming request writes exactly five lines, in the
\* order of the lines list, each strictly after the previous one; the stream
\* eventually closes after the fifth line, and nothing is written after that.
C15_FiveLinesThenClose ==
  /\ [](\A s \in Streams : skind[s] = "stream" => FiveLinesInOrder(s))
  /\ [][\A s \in Streams : Closed(s) => (sent'[s] = sent[s] /\ Closed(s)')]_vars
  /\ \A s \in Streams : (skind[s] = "stream") ~> (Closed(s) \/ aborted[s])

C15_Witness ==
  \E s \in Streams :
    /\ skind[s] = "stream" /\ Closed(s) /\ ~aborted[s]
    /\ Len(sent[s]) = 5 /\ sent[s][1].t < sent[s][5].t

\* six message events numbered 1..6 in order, then one done event
SixEventsThenDone(s) ==
  /\ Len(sent[s]) <= 7
  /\ \A k \in DOMAIN sent[s] :
       IF k <= 6
         THEN sent[s][k].chunk.event = "message" /\ sent[s][k].chunk.data.count = k
         ELSE sent[s][k].chunk.event = "done"
  /\ StrictlyLater(s)
  /\ (Closed(s) /\ ~aborted[s]) => Len(sent[s]) = 7

\* C16: an uncancelled SSE request emits exactly six message events with
\* counters 1..6 in increasing order, then exactly one done event; the stream
\* eventually closes, and no event follows the done event.
C16_SixEventsThenDone ==
  /\ [](\A s \in Streams : skind[s] = "sse" => SixEventsThenDone(s))
  /\ [][\A s \in Streams :
          (skind[s] = "sse" /\ sent[s] # << >> /\ LastSent(s).chunk.event = "done")
            => sent'[s] = sent[s]]_vars
  /\ \A s \in Streams : (skind[s] = "sse") ~> (Closed(s) \/ aborted[s])

C16_Witness ==
  \E s \in Streams :
    /\ skind[s] = "sse" /\ Closed(s) /\ ~aborted[s]
    /\ Len(sent[s]) = 7 /\ sent[s][6].chunk.data.count = 6
    /\ sent[s][7].chunk = SseDone

\* C17: once the client has disconnected, the loop begins no further
\* iteration and attempts no further write.
C17_NoWriteAfterDisconnect ==
  [][\A s \in Streams :
       aborted[s] => (attempts'[s] = attempts[s] /\ idx'[s] = idx[s])]_vars

\* what the k-th write of an invocation is, counted from its own start
ExpectedAt(s, k) ==
  IF skind[s] = "stream" THEN sent[s][k].chunk = lines(t0[s])[k]
  ELSE IF k <= SseEvents
    THEN sent[s][k].chunk.event = "message" /\ sent[s][k].chunk.data.count = k
    ELSE sent[s][k].chunk = SseDone

\* an invocation's output and progress are its own, from the start
OwnSequence(s) ==
  /\ \A k \in DOMAIN sent[s] : ExpectedAt(s, k)
  /\ ~aborted[s] => Len(sent[s]) = attempts[s]
  /\ (Closed(s) /\ ~aborted[s]) =>
       Len(sent[s]) = IF skind[s] = "stream" THEN 5 ELSE 7

\* C18: stream invocations share no state: each one, alone or interleaved
\* with another, emits its own sequence from the start, and a step of one
\* invocation leaves the progress and output of the others unchanged.
C18_InvocationsIndependent ==
  /\ [](\A s \in Streams : Started(s) => OwnSequence(s))
  /\ [][\A s, u \in Streams :
          (s # u /\ spc'[s] # spc[s]) =>
            (sent'[u] = sent[u] /\ idx'[u] = idx[u] /\ attempts'[u] = attempts[u])]_vars

C18_Witness ==
  \E s, u \in Streams :
    /\ s # u /\ skind[s] = skind[u]
    /\ spc[s] = "sleeping" /\ idx[s] = 3 /\ Len(sent[s]) = 4
    /\ spc[u] = "writing" /\ idx[u] = 0 /\ Len(sent[u]) = 1

\* C19: every key/value pair of the query string, repeated keys included, is
\* in the query object of the response.
C19_AllPairsEchoed ==
  \A r \in Req :
    (IsRoute(r, "query") /\ Responded(r)) =>
      \A i \in DOMAIN req[r].search :
        /\ req[r].search[i][1] \in DOMAIN res[r].body.query
        /\ res[r].body.query[req[r].search[i][1]] = req[r].search[i][2]

\* ---- the demo client
\* what the client has read of the body so far
Received == SubSeq(Wire, 1, got)

\* the line ends among some bytes, and the k-th line they complete
Ends(bytes) == { i \in DOMAIN bytes : bytes[i].c = "\n" }
EndNo(bytes, k) ==
  CHOOSE e \in Ends(bytes) : Cardinality({ j \in Ends(bytes) : j <= e }) = k
LineNo(bytes, k) ==
  SubSeq(bytes, IF k = 1 THEN 1 ELSE EndNo(bytes, k - 1) + 1, EndNo(bytes, k) - 1)
CompleteLines(bytes) ==
  [k \in 1..Cardinality(Ends(bytes)) |-> Decode(LineNo(bytes, k))]

NotBlank(line) == Trim(line) # << >>
IsDataLine(line) == StartsWithData(line)
TrimEach(list) == [k \in DOMAIN list |-> Trim(list[k])]
PayloadEach(list) == [k \in DOMAIN list |-> list[k][8].v]

\* a text without its characters outside ASCII, and without U+FFFD
IsAsciiChar(ch) ==
  ch.c \notin {"fire", "zap", "package", "rocket", "check", "FFFD"}
AsciiOnly(str) == SelectSeq(str, IsAsciiChar)

\* the units completed by what was read so far, in arrival order
UnitsRead ==
  IF cmode = "events"
  THEN PayloadEach(SelectSeq(CompleteLines(Received), IsDataLine))
  ELSE TrimEach(SelectSeq(CompleteLines(Received), NotBlank))

\* C20: while the client reads, after every chunk the visible list holds
\* exactly the lines (SSE: the data payloads) completed by the bytes read so
\* far, in arrival order, also before the stream has ended; the text variant
\* shows everything read.  Texts are compared by their ASCII characters.
C20_ShownAsRead ==
  cpc = "reading" =>
    CASE cmode = "list" ->
           /\ Len(shown) = Len(UnitsRead)
           /\ \A k \in DOMAIN shown : AsciiOnly(shown[k]) = AsciiOnly(UnitsRead[k])
      [] cmode = "events" -> shown = UnitsRead
      [] cmode = "text" -> AsciiOnly(shown) = AsciiOnly(Decode(Received))

\* two lines are on the list while the server has not yet closed the stream
C20_Witness ==
  /\ cmode = "list" /\ cpc = "reading"
  /\ spc[1] # "closed"
  /\ Len(shown) >= 2
  /\ Len(UnitsRead) = Len(shown)

\* the same case for the two other client functions
C20_WitnessEvents ==
  cmode = "events" /\ cpc = "reading" /\ spc[1] # "closed" /\ Len(shown) >= 2
C20_WitnessText ==
  cmode = "text" /\ cpc = "reading" /\ spc[1] # "closed" /\ Len(shown) >= 8
\* a chunk boundary inside a character has damaged a shown line
C20_WitnessDamaged ==
  cmode = "list" /\ \E k \in DOMAIN shown : \E i \in DOMAIN shown[k] : shown[k][i] = FFFD

\* ---- shared state
\* C21: the request counter changes only in a pre-phase step of a request
\* under /api/showcase/, by exactly one; handlers, app.onError, the
\* post-phase and requests outside the prefix (GET /api/health) leave it
\* alone, so it counts exactly the requests under the prefix that passed the
\* pre-phase.
C21_CounterFrame ==
  /\ [](requestCounter = Cardinality({ r \in Req : PastPre(r) }))
  /\ [][requestCounter' # requestCounter =>
          /\ requestCounter' = requestCounter + 1
          /\ \E r \in Req : /\ pc[r] = "pre" /\ pc'[r] = "handler"
                            /\ UnderShowcase(req[r].route)]_vars
  /\ [][\A r \in Req :
          (pc[r] # "idle" /\ pc'[r] # pc[r] /\ ~UnderShowcase(req[r].route))
            => requestCounter' = requestCounter]_vars

\* a health request and a faulting request under the prefix have both been
\* answered, and the counter stands at one
C21_Witness ==
  /\ requestCounter = 1
  /\ \E r \in Req : IsRoute(r, "health") /\ pc[r] = "done"
  /\ \E r \in Req : Faulted(r) /\ pc[r] = "done" /\ UnderShowcase(req[r].route)

\* C22: every pause of the emitters begins right after a write has returned
\* and ends with the next write: the line emitter pauses only between two
\* lines and closes the stream once the last line is written.
C22_PausesBetweenWrites ==
  /\ [][\A s \in Streams :
          (spc[s] # "sleeping" /\ spc'[s] = "sleeping") => spc[s] = "writing"]_vars
  /\ [][\A s \in Streams :
          (spc[s] = "sleeping" /\ spc'[s] # "sleeping")
            => attempts'[s] = attempts[s] + 1]_vars

\* ---- propagation of faults
HandlerRan(r) == pc[r] \in {"onError", "post", "done"}

\* every error response comes from app.onError, and every fault that leaves
\* a handler goes there
OnlyOnErrorAnswersFaults ==
  /\ [](\A r \in Req :
          (Responded(r) /\ "error" \in DOMAIN res[r].body)
            => (Faulted(r) /\ answered[r] # << >>))
  /\ [][\A r \in Req : raised'[r] # raised[r] => pc'[r] = "onError"]_vars

C24_ChunkIndependent ==
  (cpc = "done" /\ cmode \in {"list", "events"}) => shown = UnitsRead

\* C25: a body that parses as JSON, whatever its shape, is answered by the
\* validator itself with status 200 or 400 and a body that has valid; no
\* fault of the validator reaches app.onError.
C25_ValidatorNeverFaults ==
  \A r \in Req :
    (IsRoute(r, "validation") /\ req[r].body.wellFormed /\ HandlerRan(r)) =>
      /\ raised[r] = None
      /\ pc[r] # "onError"
      /\ res[r].status \in {200, 400}
      /\ "valid" \in DOMAIN res[r].body

\* ---- the showcase page
\* the calls of fireRequest that have completed and are still in the log
Landed == { requestLog[i].n : i \in DOMAIN requestLog }
EntryOf(n) == requestLog[CHOOSE i \in DOMAIN requestLog : requestLog[i].n = n]

\* C26: loading is false only when no request is in flight, and once none
\* is in flight the response, status and headers on display are those of
\* the request issued last.
C26_LatestRequestShown ==
  /\ ~loading => flying = {}
  /\ (flying = {} /\ response # None) =>
       /\ \A n \in Landed : n <= response.n
       /\ responseStatus = EntryOf(response.n).status
       /\ responseHeaders \subseteq {response.n}

\* C27: never more than one read loop of a kind; the flag of a kind is set
\* exactly while its loop runs, so it is false again after the loop ended
\* with done or with an error; while it is set no loop is started and the
\* list is not emptied by a start.
C27_OneLoopPerKind ==
  /\ [](\A k \in Kinds : loops[k] <= 1 /\ (running[k] <=> loops[k] = 1))
  /\ [][\A k \in Kinds : running[k] => loops'[k] <= loops[k]]_vars
  /\ [][\A k \in Kinds :
          (running[k] /\ output[k] # << >> /\ output'[k] = << >>)
            => lastAction' = ""]_vars

\* the SSE loop runs, asked for last, while the plain stream has ended with
\* an error and its flag is down again
C27_Witness ==
  /\ running["sse"] /\ loops["sse"] = 1 /\ lastAction = "sse"
  /\ ~running["stream"] /\ loops["stream"] = 0
  /\ output["stream"] # << >> /\ output["stream"][Len(output["stream"])] = "Error"

\* what switchFeature leaves behind
IsReset ==
  /\ response = None /\ responseHeaders = {} /\ responseStatus = None
  /\ \A k \in Kinds : output[k] = << >>
  /\ lastAction = "" /\ methodChainMethod = None

\* C28: from switchFeature until the next demo is run, response, headers,
\* status, stream output, SSE events, last action and selected method stay
\* reset, also when a request or a stream was under way at the switch.
C28_StaysReset == untouched => IsReset

\* the result card shows: v-if="lastAction === demo.id && response !== null
\* && !loading"
CardShown == lastAction \in RequestDemos /\ response # None /\ ~loading

\* C29: a request that failed, with a status of 400 or more or with no
\* response at all (status 0), is presented as Rejected, in the result card
\* and in the request log.
C29_FailurePresentedAsError ==
  /\ (CardShown /\ (response.data = "error.message" \/ responseStatus >= 400))
       => Presented(responseStatus) = "Rejected"
  /\ \A i \in DOMAIN requestLog :
       Failed(requestLog[i]) => Presented(requestLog[i].status) = "Rejected"

====
